---- MODULE Spec2Model ----
(***************************************************************************)
(* A model of ftumixer.py: the Mixer (ALSA route and effects controls, the  *)
(* polling thread), the Gui handlers that write routes and the link table, *)
(* Config.Load and Config.Save.  Channel numbers are 0-based as in the     *)
(* Mixer class.                                                            *)
(***************************************************************************)
EXTENDS Integers, Sequences, FiniteSets, TLC

\* ------------------------------------------------------------------ bounds
\* Number of channels the card reports (8 on the real hardware).
NumChannels == 3
\* Number of operations (user events, API calls, hardware events) in a run.
MaxOps == 2
\* Depth at which the interpreter raises RecursionError (1000 by default).
RecursionLimit == 6
\* Number of observers AddObserver may register.
MaxObservers == 2
\* Number of workers the wx event queue holds when a saved file is loaded.
MaxQueue == 1

Chan == 0..(NumChannels - 1)
\* self.__links[o] is None
NoLink == -1
\* Volumes the hardware may hold at startup.
InitVolumes == {30}
\* Volumes a user, an external program or a config file asks for.
Volumes == {0, 70, 100}
\* Values handed to SetVolume, some of them outside 0..100.
AnyValues == Volumes \cup {-1, 101}

VARIABLES
    analog_routes,          \* [o][i] -> volume of control "AIn{i+1} - Out{o+1}"
    digital_routes,         \* [o][i] -> volume of control "DIn{i+1} - Out{o+1}"
    hardwarerouting_sliders,\* [o][i] -> value of the slider of analog route (o, i)
    masterslider,           \* value of the master slider
    links,                  \* [o] -> NoLink or the linked output
    observers,              \* sequence of registered observer functions
    descriptors_to_routes,  \* fd -> <<out_index, in_index, digital>>
    fdstate,                \* fd -> "quiet" | "readable" | "error" | "broken"
    polling_thread,         \* "running" | "dead"
    call_after,             \* workers queued with wx.CallAfter
    observer_calls,         \* observer invocations made by the last operation
    last,                   \* the last operation: what was called and how it ended
    ops,                    \* operations performed so far
    fx,                     \* name of an effects control -> its volume or the index of its item
    config_file,            \* the config file Config.Save wrote, if any
    saved_state,            \* the routes, effects and links at the time of that Save
    poll,                   \* the descriptors registered with self.__poll
    creating,               \* the construction's position: its step, the control, slider
                            \* or channel it handles next, Gui.__init__'s mastervalue
    loading                 \* the load that waits for amixer, if one does

vars == <<analog_routes, digital_routes, hardwarerouting_sliders, masterslider,
          links, observers, descriptors_to_routes, fdstate, polling_thread,
          call_after, observer_calls, last, ops, fx, config_file, saved_state,
          poll, creating, loading>>

\* --------------------------------------------------------------- helpers
\* Python list indexing: negative indices count from the end, anything else
\* outside the list raises IndexError (reported as -1).
PyIndex(idx, len) ==
    IF idx >= 0 /\ idx < len THEN idx
    ELSE IF idx < 0 /\ idx >= 0 - len THEN idx + len
    ELSE -1

\* wx.Slider.SetValue on a slider with SetMin(0), SetMax(100).
SliderSetValue(v) == IF v < 0 THEN 0 ELSE IF v > 100 THEN 100 ELSE v

\* The id of the slider widget of analog route (o, i); event.GetId() of an
\* EVT_SLIDER event is the id of the slider that was moved.
SliderId(o, i) == <<o, i>>
\* event=None (the macros call the handler without an event).
NoEvent == <<>>

\* The digital outputs of the card, and the digital inputs of each.
DigitalOuts == Cardinality(DOMAIN digital_routes)
DigitalIns == Cardinality(DOMAIN digital_routes[0])

\* The file descriptor of a route's control, in creation order: the analog
\* routes, then the digital ones.
Descriptor(o, i, digital) ==
    IF digital THEN NumChannels * NumChannels + o * DigitalIns + i
    ELSE o * NumChannels + i

\* The descriptors of a card with as many digital channels as analog ones.
Descriptors == 0..(2 * NumChannels * NumChannels - 1)

\* The descriptors of the card: one for every route it reports.
CardDescriptors == 0..(NumChannels * NumChannels + DigitalOuts * DigitalIns - 1)

\* The route whose control has descriptor d: (out_index, in_index, digital).
RouteOf(d) ==
    IF d >= NumChannels * NumChannels
    THEN LET r == d - NumChannels * NumChannels
         IN  <<r \div DigitalIns, r % DigitalIns, TRUE>>
    ELSE <<d \div NumChannels, d % NumChannels, FALSE>>

\* Mixer.__init__ has created every route and Gui.__init__ has ended.
Created ==
    [next |-> NumChannels * NumChannels + DigitalOuts * DigitalIns, step |-> "done",
     mastervalue |-> 0]

\* What alsaaudio's setvolume does with a value: a percentage is stored; a
\* value outside 0..100 is refused by pyalsaaudio's own range check, which
\* Mixer.SetVolume does not repeat, so a backend without it stores the value.
BackendAccepts(value) == IF value \in 0..100 THEN {TRUE} ELSE BOOLEAN

\* Mixer.GetVolume
GetVolume(output_channel, input_channel, digital) ==
    IF digital THEN digital_routes[output_channel][input_channel]
    ELSE analog_routes[output_channel][input_channel]

\* Mixer.SetVolume with the digital flag dropped: always the analog route.
MixerSetVolumeAnalogOnly(an, dg, value, output_channel, input_channel, digital, accepts) ==
    LET o == PyIndex(output_channel, NumChannels)
        i == PyIndex(input_channel, NumChannels)
    IN  IF o = -1 \/ i = -1
        THEN [analog |-> an, digital |-> dg, error |-> "IndexError"]
        ELSE IF ~accepts
        THEN [analog |-> an, digital |-> dg, error |-> "ALSAAudioError"]
        ELSE [analog |-> [an EXCEPT ![o][i] = value], digital |-> dg, error |-> "none"]

\* Mixer.SetVolume on the route tables (an, dg): the tables after the call and
\* the exception it ended with ("none" when it returned).
MixerSetVolume(an, dg, value, output_channel, input_channel, digital, accepts) ==
    LET table == IF digital THEN dg ELSE an
        o == PyIndex(output_channel, Cardinality(DOMAIN table))
        i == IF o = -1 THEN -1
             ELSE PyIndex(input_channel, Cardinality(DOMAIN table[o]))
    IN  IF o = -1 \/ i = -1
        THEN [analog |-> an, digital |-> dg, error |-> "IndexError"]
        ELSE IF ~accepts
        THEN [analog |-> an, digital |-> dg, error |-> "ALSAAudioError"]
        ELSE IF digital
        THEN [analog |-> an, digital |-> [dg EXCEPT ![o][i] = value], error |-> "none"]
        ELSE [analog |-> [an EXCEPT ![o][i] = value], digital |-> dg, error |-> "none"]

\* ------------------------------------------------------- effects controls
\* self.__fx_control_names: the controls of the card that are no routes.
FxControlNames == <<"Effect Volume", "Effect Program">>

\* c.volumecap() != []: the control has a volume.
FxHasVolume(n) == n = "Effect Volume"

\* mixer.getenum() != (): the control is enumerated.
FxIsEnum(n) == n = "Effect Program"

\* mixer.getenum()[1]: the items of the enumerated control; the control holds
\* the index of its current item.
EnumItems == <<"Room 1", "Hall 1">>

\* n.replace(" ", "_").lower()
CName(n) ==
    CASE n = "Effect Volume" -> "effect_volume"
      [] n = "Effect Program" -> "effect_program"

\* Mixer.DisableEffects without the test of volumecap().
MixerDisableAllEffects(e) == [n \in DOMAIN e |-> 0]

\* Mixer.DisableEffects on the effects controls e.
MixerDisableEffects(e) ==
    [n \in DOMAIN e |-> IF FxHasVolume(n) THEN 0 ELSE e[n]]

\* Mixer.MuteMostDigitalRoutes without the test "o != i".
MixerMuteAllDigitalRoutes(dg) ==
    [o \in DOMAIN dg |-> [i \in DOMAIN dg[o] |-> 0]]

\* Mixer.MuteMostDigitalRoutes on the digital route table dg.
MixerMuteMostDigitalRoutes(dg) ==
    [o \in DOMAIN dg |-> [i \in DOMAIN dg[o] |-> IF o # i THEN 0 ELSE dg[o][i]]]

\* A config dictionary without sections.
EmptyConfigDict ==
    [sections |-> {}, Analog |-> <<>>, Digital |-> <<>>, Effects |-> <<>>, GUI |-> <<>>]

\* No load is under way: the main thread is free.  While Mixer.ParseConfigDict
\* waits for the amixer process (subprocess.check_output), the main thread
\* runs no handler; k is the effects control amixer was called for.
NotLoading ==
    [active |-> FALSE, configdict |-> EmptyConfigDict, changed_analog_routes |-> <<>>,
     changed_digital_routes |-> <<>>, k |-> 0, accepts |-> TRUE]

\* The command line options -F and -M as <<disable_effects,
\* mute_most_digital_routes>>: neither given (the default) or both.
StartupOptions == {<<TRUE, TRUE>>, <<FALSE, FALSE>>}

\* ------------------------------------------------------------------ Init
\* The state after Mixer.__init__ and Gui.__init__ on a card whose controls
\* hold the volumes a0 (analog), d0 (digital) and e0 (effects), and which has
\* digital routes "DIn{i} - Out{o}" for o up to outs and i up to ins.
InitCard(a0, d0, e0, startup, outs, ins) ==
    /\ LET disable_effects == startup[1]
           mute_most_digital_routes == startup[2]
           dg == [o \in 0..(outs - 1) |-> [i \in 0..(ins - 1) |-> d0]]
           e == [n \in {FxControlNames[k] : k \in 1..Len(FxControlNames)} |->
                    IF FxIsEnum(n) THEN 1 ELSE e0]
       IN  /\ analog_routes = [o \in Chan |-> [i \in Chan |-> a0]]
           /\ digital_routes = IF mute_most_digital_routes
                               THEN MixerMuteMostDigitalRoutes(dg) ELSE dg
           /\ fx = IF disable_effects THEN MixerDisableEffects(e) ELSE e
           /\ hardwarerouting_sliders = [o \in Chan |-> [i \in Chan |-> a0]]
           /\ masterslider = d0
    /\ links = [o \in Chan |-> NoLink]
    /\ observers = <<"gui">>
    /\ descriptors_to_routes = [d \in CardDescriptors |-> RouteOf(d)]
    /\ poll = CardDescriptors
    /\ creating = Created
    /\ fdstate = [d \in CardDescriptors |-> "quiet"]
    /\ polling_thread = "running"
    /\ call_after = <<>>
    /\ observer_calls = <<>>
    /\ last = [op |-> "init", thread |-> "main", args |-> <<>>, outcome |-> "none", trace |-> <<>>]
    /\ ops = 0
    /\ config_file = [exists |-> FALSE, configdict |-> EmptyConfigDict]
    /\ saved_state = [analog |-> <<>>, digital |-> <<>>, fx |-> <<>>, links |-> <<>>]
    /\ loading = NotLoading

\* The card has as many digital inputs and outputs as analog ones.
Init ==
    \E a0 \in InitVolumes, d0 \in InitVolumes, e0 \in InitVolumes, startup \in StartupOptions :
       InitCard(a0, d0, e0, startup, NumChannels, NumChannels)

\* Cards that report one digital input or output more than analog ones.
InitAnyCard ==
    \E a0 \in Volumes, d0 \in Volumes, e0 \in Volumes, startup \in StartupOptions,
       outs \in {NumChannels, NumChannels + 1}, ins \in {NumChannels, NumChannels + 1} :
       InitCard(a0, d0, e0, startup, outs, ins)

\* --------------------------------------------------------------- actions
\* A call of Mixer.SetVolume(value, output_channel, input_channel, digital).
SetVolume(value, output_channel, input_channel, digital) ==
    /\ ops < MaxOps
    /\ ~loading.active
    /\ \E accepts \in BackendAccepts(value) :
          LET r == MixerSetVolume(analog_routes, digital_routes, value,
                                  output_channel, input_channel, digital, accepts)
          IN  /\ analog_routes' = r.analog
              /\ digital_routes' = r.digital
              /\ last' = [op |-> "SetVolume", thread |-> "main",
                          args |-> <<value, output_channel, input_channel, digital>>,
                          outcome |-> r.error, trace |-> <<>>]
    /\ observer_calls' = <<>>
    /\ ops' = ops + 1
    /\ UNCHANGED <<fx, config_file, saved_state>>
    /\ UNCHANGED <<hardwarerouting_sliders, masterslider, links, observers,
                   descriptors_to_routes, poll, creating, loading,
                   fdstate, polling_thread, call_after>>

\* ------------------------------------------------- Gui.__OnHardwareRouting
\* The handler without its recursive call: the linked slider is moved, the
\* linked route is not written.
OnHardwareRoutingNoCascade(st, event, output_channel, input_channel, depth) ==
    LET volume == st.sliders[output_channel][input_channel]
        set == MixerSetVolume(st.analog, st.digital, volume,
                              output_channel, input_channel, FALSE, TRUE)
        st1 == [st EXCEPT !.analog = set.analog,
                          !.trace = Append(@, output_channel)]
        linked_output == links[output_channel]
    IN  IF linked_output = NoLink \/ event = NoEvent
        THEN st1
        ELSE IF PyIndex(linked_output, NumChannels) = -1
        THEN [st1 EXCEPT !.outcome = "IndexError"]
        ELSE IF event = SliderId(linked_output, input_channel)
        THEN st1
        ELSE [st1 EXCEPT !.sliders[linked_output][input_channel] = SliderSetValue(volume)]

\* The handler without the comparison of the event's id with the linked
\* slider's id.
RECURSIVE OnHardwareRoutingNoGuard(_, _, _, _, _)
OnHardwareRoutingNoGuard(st, event, output_channel, input_channel, depth) ==
    IF depth > RecursionLimit
    THEN [st EXCEPT !.outcome = "RecursionError"]
    ELSE
    LET volume == st.sliders[output_channel][input_channel]
        set == MixerSetVolume(st.analog, st.digital, volume,
                              output_channel, input_channel, FALSE, TRUE)
        st1 == [st EXCEPT !.analog = set.analog,
                          !.trace = Append(@, output_channel)]
        linked_output == links[output_channel]
    IN  IF linked_output = NoLink \/ event = NoEvent
        THEN st1
        ELSE IF PyIndex(linked_output, NumChannels) = -1
        THEN [st1 EXCEPT !.outcome = "IndexError"]
        ELSE OnHardwareRoutingNoGuard(
                [st1 EXCEPT !.sliders[linked_output][input_channel] = SliderSetValue(volume)],
                event, linked_output, input_channel, depth + 1)

\* The handler with the linked output handed on as the input channel of the
\* nested call.
RECURSIVE OnHardwareRoutingLinkedInput(_, _, _, _, _)
OnHardwareRoutingLinkedInput(st, event, output_channel, input_channel, depth) ==
    IF depth > RecursionLimit
    THEN [st EXCEPT !.outcome = "RecursionError"]
    ELSE
    LET volume == st.sliders[output_channel][input_channel]
        set == MixerSetVolume(st.analog, st.digital, volume,
                              output_channel, input_channel, FALSE, TRUE)
        st1 == [st EXCEPT !.analog = set.analog,
                          !.trace = Append(@, output_channel)]
        linked_output == links[output_channel]
    IN  IF linked_output = NoLink \/ event = NoEvent
        THEN st1
        ELSE IF PyIndex(linked_output, NumChannels) = -1
        THEN [st1 EXCEPT !.outcome = "IndexError"]
        ELSE IF event = SliderId(linked_output, input_channel)
        THEN st1
        ELSE OnHardwareRoutingLinkedInput(
                [st1 EXCEPT !.sliders[linked_output][linked_output] = SliderSetValue(volume)],
                event, linked_output, linked_output, depth + 1)

\* The handler, called for output_channel with the event of a moved slider
\* (or NoEvent), on st = the route table, the sliders, the outputs handled so
\* far and the exception raised.  depth counts the nested calls.
RECURSIVE OnHardwareRouting(_, _, _, _, _)
OnHardwareRouting(st, event, output_channel, input_channel, depth) ==
    IF depth > RecursionLimit
    THEN [st EXCEPT !.outcome = "RecursionError"]
    ELSE
    LET volume == st.sliders[output_channel][input_channel]
        set == MixerSetVolume(st.analog, st.digital, volume,
                              output_channel, input_channel, FALSE, TRUE)
        st1 == [st EXCEPT !.analog = set.analog,
                          !.trace = Append(@, output_channel)]
        linked_output == links[output_channel]
    IN  IF linked_output = NoLink \/ event = NoEvent
        THEN st1
        ELSE IF PyIndex(linked_output, NumChannels) = -1
        THEN [st1 EXCEPT !.outcome = "IndexError"]
        ELSE IF event = SliderId(linked_output, input_channel)
        THEN st1
        ELSE OnHardwareRouting(
                [st1 EXCEPT !.sliders[linked_output][input_channel] = SliderSetValue(volume)],
                event, linked_output, input_channel, depth + 1)

\* The user moves the slider of analog route (o, i) to value: wx sets the
\* slider and calls the handler bound to it with the slider's event.
MoveSlider(o, i, value) ==
    /\ ops < MaxOps
    /\ ~loading.active
    /\ LET st0 == [analog |-> analog_routes, digital |-> digital_routes,
                   sliders |-> [hardwarerouting_sliders EXCEPT ![o][i] = value],
                   trace |-> <<>>, outcome |-> "none"]
           st == OnHardwareRouting(st0, SliderId(o, i), o, i, 1)
       IN  /\ analog_routes' = st.analog
           /\ hardwarerouting_sliders' = st.sliders
           /\ last' = [op |-> "MoveSlider", thread |-> "main", args |-> <<value, o, i>>,
                       outcome |-> st.outcome, trace |-> st.trace]
    /\ observer_calls' = <<>>
    /\ ops' = ops + 1
    /\ UNCHANGED <<fx, config_file, saved_state>>
    /\ UNCHANGED <<digital_routes, masterslider, links, observers,
                   descriptors_to_routes, poll, creating, loading,
                   fdstate, polling_thread, call_after>>

\* ---------------------------------------------------------- Gui.__OnMaster
\* The loop of Gui.__OnMaster from channel c on: the value of the master
\* slider is set as the volume of the digital route (c, c).
RECURSIVE GuiOnMaster(_, _, _)
GuiOnMaster(st, value, c) ==
    IF c >= NumChannels \/ st.error # "none" THEN st
    ELSE LET set == MixerSetVolume(st.analog, st.digital, value, c, c, TRUE, TRUE)
         IN  GuiOnMaster([analog |-> set.analog, digital |-> set.digital,
                          error |-> set.error], value, c + 1)

\* The user moves the master slider to value: wx sets the slider and calls
\* the handler bound to it.
OnMaster(value) ==
    /\ ops < MaxOps
    /\ ~loading.active
    /\ LET st == GuiOnMaster([analog |-> analog_routes, digital |-> digital_routes,
                              error |-> "none"], value, 0)
       IN  /\ digital_routes' = st.digital
           /\ last' = [op |-> "OnMaster", thread |-> "main", args |-> <<value>>,
                       outcome |-> st.error, trace |-> <<>>]
    /\ masterslider' = value
    /\ observer_calls' = <<>>
    /\ ops' = ops + 1
    /\ UNCHANGED <<analog_routes, hardwarerouting_sliders, links, observers,
                   descriptors_to_routes, poll, creating, loading, fdstate,
                   polling_thread, call_after, fx, config_file, saved_state>>

\* ------------------------------------------------------------ Gui.__OnLink
\* The entries of output o's "Link to" selector: 0 is "None", k is "Out{k}".
LinkChoices(o) == {0} \cup {k \in 1..NumChannels : k - 1 # o}

\* int(selection[-1]) for the selection "Out{k}": its last character.
LastDigit(k) == k % 10

\* The user picks entry k of output_channel's selector.
OnLink(output_channel, k) ==
    /\ ops < MaxOps
    /\ ~loading.active
    /\ k \in LinkChoices(output_channel)
    /\ links' = [links EXCEPT ![output_channel] =
                    IF k = 0 THEN NoLink ELSE LastDigit(k) - 1]
    /\ last' = [op |-> "OnLink", thread |-> "main", args |-> <<output_channel, k>>,
                outcome |-> "none", trace |-> <<>>]
    /\ observer_calls' = <<>>
    /\ ops' = ops + 1
    /\ UNCHANGED <<fx, config_file, saved_state>>
    /\ UNCHANGED <<analog_routes, digital_routes, hardwarerouting_sliders, masterslider,
                   observers, descriptors_to_routes, poll, creating, loading,
                   fdstate, polling_thread, call_after>>

\* ----------------------------------------------- Gui.__OnMixerEvent.worker
\* int(round(total / float(n))): Python rounds a tie to the even neighbour.
RoundDiv(total, n) ==
    LET q == total \div n
        r == total % n
    IN  IF 2 * r < n THEN q
        ELSE IF 2 * r > n THEN q + 1
        ELSE IF q % 2 = 0 THEN q ELSE q + 1

\* The sum of the volumes of the digital routes (c, c), from channel c on.
RECURSIVE SumDiagonal(_, _)
SumDiagonal(dg, c) ==
    IF c >= NumChannels THEN 0 ELSE dg[c][c] + SumDiagonal(dg, c + 1)

\* The first loop of worker, moving the slider of the linked output as well.
RECURSIVE WorkerSlidersLinked(_, _, _, _)
WorkerSlidersLinked(sliders, changed, k, an) ==
    IF k > Len(changed) THEN sliders
    ELSE LET o == PyIndex(changed[k][1], NumChannels)
             i == PyIndex(changed[k][2], NumChannels)
             volume == an[o][i]
             moved == IF volume # sliders[o][i]
                      THEN [sliders EXCEPT ![o][i] = SliderSetValue(volume)]
                      ELSE sliders
         IN  WorkerSlidersLinked(
                IF links[o] \in Chan
                THEN [moved EXCEPT ![links[o]][i] = SliderSetValue(volume)]
                ELSE moved,
                changed, k + 1, an)

\* The first loop of worker over changed_analog_routes, from its k-th pair on.
RECURSIVE WorkerSliders(_, _, _, _)
WorkerSliders(sliders, changed, k, an) ==
    IF k > Len(changed) THEN sliders
    ELSE LET o == PyIndex(changed[k][1], NumChannels)
             i == PyIndex(changed[k][2], NumChannels)
             volume == an[o][i]
         IN  WorkerSliders(IF volume # sliders[o][i]
                           THEN [sliders EXCEPT ![o][i] = SliderSetValue(volume)]
                           ELSE sliders,
                           changed, k + 1, an)

\* worker, on the widgets gs = [sliders, master, queue], for the changed
\* routes w, reading the volumes of the route tables (an, dg).
WorkerBody(gs, w, an, dg) ==
    [gs EXCEPT !.sliders = WorkerSliders(@, w.analog, 1, an),
               !.master = IF \E k \in 1..Len(w.digital) : w.digital[k][1] = w.digital[k][2]
                          THEN SliderSetValue(RoundDiv(SumDiagonal(dg, 0), NumChannels))
                          ELSE @]

\* Run in the caller's thread instead of being queued.
OnMixerEventInline(gs, changed_analog_routes, changed_digital_routes, an, dg) ==
    WorkerBody(gs, [analog |-> changed_analog_routes, digital |-> changed_digital_routes],
               an, dg)

\* Gui.__OnMixerEvent, called in the thread that found the change: it touches
\* no widget, it queues worker with wx.CallAfter for the main loop.
OnMixerEvent(gs, changed_analog_routes, changed_digital_routes, an, dg) ==
    [gs EXCEPT !.queue = Append(@, [analog |-> changed_analog_routes,
                                    digital |-> changed_digital_routes])]

\* -------------------------------------------------------- Mixer.AddObserver
\* The widgets and the wx event queue, as the observers see them.
GuiState ==
    [sliders |-> hardwarerouting_sliders, master |-> masterslider, queue |-> call_after,
     calls |-> <<>>]

\* "for o in self.__observers: o(changed_analog_routes, changed_digital_routes)",
\* from the k-th observer on.  The observer "gui" is Gui.__OnMixerEvent; every
\* call is recorded in calls.
RECURSIVE CallObservers(_, _, _, _, _, _)
CallObservers(gs, k, changed_analog_routes, changed_digital_routes, an, dg) ==
    IF k > Len(observers) THEN gs
    ELSE LET called == [gs EXCEPT !.calls = Append(@, [observer |-> k,
                                                       analog |-> changed_analog_routes,
                                                       digital |-> changed_digital_routes])]
         IN  CallObservers(
                IF observers[k] = "gui"
                THEN OnMixerEvent(called, changed_analog_routes, changed_digital_routes, an, dg)
                ELSE called,
                k + 1, changed_analog_routes, changed_digital_routes, an, dg)

AddObserver ==
    /\ ops < MaxOps
    /\ ~loading.active
    /\ Len(observers) < MaxObservers
    /\ observers' = Append(observers, "client")
    /\ last' = [op |-> "AddObserver", thread |-> "main", args |-> <<>>,
                outcome |-> "none", trace |-> <<>>]
    /\ observer_calls' = <<>>
    /\ ops' = ops + 1
    /\ UNCHANGED <<fx, config_file, saved_state>>
    /\ UNCHANGED <<analog_routes, digital_routes, hardwarerouting_sliders, masterslider,
                   links, descriptors_to_routes, poll, creating, loading,
                   fdstate, polling_thread, call_after>>

\* ------------------------------------------------------------- Config.Load
\* A config dictionary as Config.Load builds it from a file: the sections it
\* has; the Analog and Digital options as the parts of their keys
\* "ain{in}_to_out{out}" / "din{in}_to_out{out}" with their values; the Effects
\* options as key and value; the GUI options as the number of the key
\* "link{link}to" with its value.
RouteOptions(prefix) ==
    {<<>>} \cup {<<[prefix |-> prefix, in |-> i, out |-> o, value |-> v]>> :
                    i \in 1..NumChannels, o \in 1..NumChannels, v \in AnyValues}

\* Route sections with a key that names no route: a channel number 0 or
\* N + 1, or a key without the section's prefix; the last one after a key
\* that names a route.
OddRouteOptions(prefix) ==
    {<<[prefix |-> prefix, in |-> c[1], out |-> c[2], value |-> 70]>> :
        c \in {<<0, 1>>, <<1, 0>>, <<NumChannels + 1, 1>>, <<1, NumChannels + 1>>}}
    \cup {<<[prefix |-> "vol", in |-> 1, out |-> 1, value |-> 70]>>,
          <<[prefix |-> prefix, in |-> 1, out |-> 1, value |-> 70],
            [prefix |-> "vol", in |-> 2, out |-> 2, value |-> 70]>>}

\* The value of an Effects option is str(volume) or the label of an item:
\* int() of the first is the volume, int() of the second raises ValueError.
VolumeText(v) == [number |-> v, label |-> ""]
LabelText(l) == [number |-> 0, label |-> l]

\* Effects sections: a volume, an item, both, an item the control does not
\* have, a label for the control with a volume, a name that is no control of
\* the card.
EffectOptions ==
    {<<[key |-> "effect_volume", value |-> VolumeText(v)]>> : v \in {0, 70, 101}}
    \cup {<<[key |-> "effect_program", value |-> LabelText(l)]>> :
            l \in {"Room 1", "Hall 1", "Plate"}}
    \cup {<<[key |-> "effect_program", value |-> LabelText("Hall 1")],
            [key |-> "effect_volume", value |-> VolumeText(70)]>>,
          <<[key |-> "effect_volume", value |-> LabelText("Hall 1")]>>,
          <<[key |-> "reverb_time", value |-> VolumeText(70)]>>}

\* The GUI sections over the keys link1to .. link{N}to, in key order.
RECURSIVE LinkOptions(_)
LinkOptions(k) ==
    IF k > NumChannels THEN {<<>>}
    ELSE LET rest == LinkOptions(k + 1)
         IN  rest \cup {<<[link |-> k, to |-> t]>> \o r : t \in 0..NumChannels, r \in rest}

\* GUI sections with a key or a value that names no channel.
OddLinkOptions ==
    {<<[link |-> k, to |-> t]>> : k \in {0, NumChannels + 1}, t \in {0, 1}}
    \cup {<<[link |-> k, to |-> NumChannels + 1]>> : k \in 1..NumChannels}

\* Route sections with a volume in 0..100 followed by one that is not.
MixedRouteOptions(prefix) ==
    {<<[prefix |-> prefix, in |-> 1, out |-> 1, value |-> 70],
       [prefix |-> prefix, in |-> 2, out |-> 1, value |-> 101]>>}

ConfigDicts ==
    {[EmptyConfigDict EXCEPT !.sections = {"GUI"}, !.GUI = g] :
        g \in LinkOptions(1) \cup OddLinkOptions}
    \cup {[EmptyConfigDict EXCEPT !.sections = {"Analog"}, !.Analog = a] :
            a \in RouteOptions("ain") \cup OddRouteOptions("ain")
                  \cup MixedRouteOptions("ain")}
    \cup {[EmptyConfigDict EXCEPT !.sections = {"Digital"}, !.Digital = d] :
            d \in RouteOptions("din") \cup OddRouteOptions("din")
                  \cup MixedRouteOptions("din")}
    \cup {[EmptyConfigDict EXCEPT !.sections = {"Effects"}, !.Effects = e] :
            e \in EffectOptions}
    \cup {[sections |-> {"Analog", "Digital", "GUI"}, Analog |-> a, Digital |-> d,
           Effects |-> <<>>, GUI |-> g] :
            a \in {<<[prefix |-> "ain", in |-> 1, out |-> 2, value |-> 70]>>},
            d \in {<<[prefix |-> "din", in |-> 2, out |-> 2, value |-> 100]>>},
            g \in {<<[link |-> 2, to |-> 1]>>}}
    \cup {EmptyConfigDict}

\* The values of a config dictionary that are set as volumes.
VolumesIn(configdict) ==
    {configdict.Analog[k].value : k \in 1..Len(configdict.Analog)}
    \cup {configdict.Digital[k].value : k \in 1..Len(configdict.Digital)}
    \cup {configdict.Effects[k].value.number :
            k \in {j \in 1..Len(configdict.Effects) :
                     /\ configdict.Effects[j].value.label = ""
                     /\ \E x \in 1..Len(FxControlNames) :
                           /\ CName(FxControlNames[x]) = configdict.Effects[j].key
                           /\ ~FxIsEnum(FxControlNames[x])}}

\* The backends that can tell these values apart: one that stores a value
\* outside 0..100 (TRUE) and one that refuses it (FALSE).  Both store the
\* values in 0..100.
BackendAcceptsAll(values) ==
    IF values \subseteq 0..100 THEN {TRUE} ELSE BOOLEAN

\* Whether a backend that does (accepts) or does not store values outside
\* 0..100 takes this value.
BackendTakes(value, accepts) == value \in 0..100 \/ accepts

\* The loop over one route section of Mixer.ParseConfigDict, from its k-th
\* option on: acc holds the route tables, the changed routes and the exception.
\* key.split(prefix)[1] raises IndexError for a key without the prefix.
RECURSIVE ParseRoutes(_, _, _, _, _)
ParseRoutes(acc, options, k, digital, accepts) ==
    IF k > Len(options) \/ acc.error # "none" THEN acc
    ELSE IF options[k].prefix # (IF digital THEN "din" ELSE "ain")
    THEN [acc EXCEPT !.error = "IndexError"]
    ELSE LET i == options[k].in - 1
             o == options[k].out - 1
             set == MixerSetVolume(acc.analog, acc.digital, options[k].value,
                                   o, i, digital, BackendTakes(options[k].value, accepts))
         IN  ParseRoutes(
                IF set.error # "none" THEN [acc EXCEPT !.error = set.error]
                ELSE [acc EXCEPT !.analog = set.analog, !.digital = set.digital,
                                 !.changed = Append(@, <<o, i>>)],
                options, k + 1, digital, accepts)

\* The loop over self.__fx_control_names of Mixer.ParseConfigDict, from the
\* k-th name on: a control whose key is in the section gets its volume; for
\* the item of a label amixer is called, and the loop waits at that control
\* (acc.wait) for the process to end.
RECURSIVE ParseEffects(_, _, _, _)
ParseEffects(acc, options, k, accepts) ==
    IF k > Len(FxControlNames) \/ acc.error # "none" \/ acc.wait # 0 THEN acc
    ELSE LET n == FxControlNames[k]
             at == {j \in 1..Len(options) : options[j].key = CName(n)}
         IN  IF at = {} THEN ParseEffects(acc, options, k + 1, accepts)
             ELSE LET value == options[CHOOSE j \in at : TRUE].value
                  IN  ParseEffects(
                         IF ~FxIsEnum(n)
                         THEN IF value.label # "" THEN [acc EXCEPT !.error = "ValueError"]
                              ELSE IF BackendTakes(value.number, accepts)
                              THEN [acc EXCEPT !.fx[n] = value.number]
                              ELSE [acc EXCEPT !.error = "ALSAAudioError"]
                         ELSE IF \E x \in 1..Len(EnumItems) : EnumItems[x] = value.label
                         THEN [acc EXCEPT !.wait = k]
                         ELSE acc,
                         options, k + 1, accepts)

\* Mixer.ParseConfigDict up to its first call of amixer, or else up to the
\* call of the observers.
MixerParseConfigDict(configdict, accepts) ==
    LET start == [analog |-> analog_routes, digital |-> digital_routes, fx |-> fx,
                  changed |-> <<>>, error |-> "none", wait |-> 0]
        a == IF "Analog" \in configdict.sections
             THEN ParseRoutes(start, configdict.Analog, 1, FALSE, accepts)
             ELSE start
        d == IF "Digital" \in configdict.sections
             THEN ParseRoutes([a EXCEPT !.changed = <<>>],
                              configdict.Digital, 1, TRUE, accepts)
             ELSE [a EXCEPT !.changed = <<>>]
        e == IF "Effects" \in configdict.sections
             THEN ParseEffects(d, configdict.Effects, 1, accepts)
             ELSE d
    IN  [analog |-> e.analog, digital |-> e.digital, fx |-> e.fx, error |-> e.error,
         wait |-> e.wait,
         changed_analog_routes |-> a.changed, changed_digital_routes |-> d.changed]

\* Mixer.ParseConfigDict from the end of the amixer process on: the control
\* holds the item of the label, and the loop over the effects controls goes on
\* with the volumes the routes have by now.
MixerParseConfigDictResumed ==
    LET n == FxControlNames[loading.k]
        options == loading.configdict.Effects
        value == options[CHOOSE j \in 1..Len(options) : options[j].key = CName(n)].value
        item == CHOOSE x \in 1..Len(EnumItems) : EnumItems[x] = value.label
        e == ParseEffects([analog |-> analog_routes, digital |-> digital_routes,
                           fx |-> [fx EXCEPT ![n] = item],
                           changed |-> <<>>, error |-> "none", wait |-> 0],
                          options, loading.k + 1, loading.accepts)
    IN  [analog |-> e.analog, digital |-> e.digital, fx |-> e.fx, error |-> e.error,
         wait |-> e.wait,
         changed_analog_routes |-> loading.changed_analog_routes,
         changed_digital_routes |-> loading.changed_digital_routes]

\* Gui.ParseConfigDict's loop over the GUI section, from its k-th option on.
RECURSIVE GuiParseLinks(_, _, _)
GuiParseLinks(acc, options, k) ==
    IF k > Len(options) \/ acc.error # "none" THEN acc
    ELSE LET link == PyIndex(options[k].link - 1, NumChannels)
             to == options[k].to - 1
         IN  GuiParseLinks(
                IF link = -1 THEN [acc EXCEPT !.error = "IndexError"]
                ELSE IF to < 0 THEN [acc EXCEPT !.links[link] = NoLink]
                ELSE [acc EXCEPT !.links[link] = to],
                options, k + 1)

\* Gui.ParseConfigDict
GuiParseConfigDict(configdict) ==
    IF "GUI" \in configdict.sections
    THEN GuiParseLinks([links |-> links, error |-> "none"], configdict.GUI, 1)
    ELSE [links |-> links, error |-> "none"]

\* Config.Load once Mixer.ParseConfigDict has got to m: either it waits for
\* amixer, or it calls the observers (unless it raised) and Gui.ParseConfigDict
\* follows.  An exception in the first ends the load before the observers and
\* the GUI section; last.trace names the method that raised.
LoadFrom(configdict, m, accepts) ==
    /\ analog_routes' = m.analog
    /\ digital_routes' = m.digital
    /\ fx' = m.fx
    /\ IF m.error = "none" /\ m.wait # 0
       THEN /\ loading' = [active |-> TRUE, configdict |-> configdict,
                           changed_analog_routes |-> m.changed_analog_routes,
                           changed_digital_routes |-> m.changed_digital_routes,
                           k |-> m.wait, accepts |-> accepts]
            /\ last' = [op |-> "Load.amixer", thread |-> "main", args |-> <<configdict>>,
                        outcome |-> "none", trace |-> <<>>]
            /\ observer_calls' = <<>>
            /\ UNCHANGED <<links, hardwarerouting_sliders, masterslider, call_after>>
       ELSE LET g == GuiParseConfigDict(configdict)
                gs == IF m.error # "none" THEN GuiState
                      ELSE CallObservers(GuiState, 1, m.changed_analog_routes,
                                         m.changed_digital_routes, m.analog, m.digital)
            IN  /\ loading' = NotLoading
                /\ links' = IF m.error # "none" THEN links ELSE g.links
                /\ hardwarerouting_sliders' = gs.sliders
                /\ masterslider' = gs.master
                /\ call_after' = gs.queue
                /\ observer_calls' = gs.calls
                /\ last' = [op |-> "Load", thread |-> "main", args |-> <<configdict>>,
                            outcome |-> IF m.error # "none" THEN m.error ELSE g.error,
                            trace |-> IF m.error # "none" THEN <<"Mixer.ParseConfigDict">>
                                      ELSE IF g.error # "none" THEN <<"Gui.ParseConfigDict">>
                                      ELSE <<>>]
    /\ UNCHANGED <<observers, descriptors_to_routes, poll, creating, fdstate,
                   polling_thread, config_file, saved_state>>

\* Config.Load on the dictionary read from the file, up to the first call of
\* amixer or, without one, to its end.
ConfigLoad(configdict) ==
    \E accepts \in BackendAcceptsAll(VolumesIn(configdict)) :
       LoadFrom(configdict, MixerParseConfigDict(configdict, accepts), accepts)

\* Config.Load of a file with the contents configdict.
Load(configdict) ==
    /\ ops < MaxOps
    /\ ~loading.active
    /\ ConfigLoad(configdict)
    /\ ops' = ops + 1

\* The amixer process has ended: subprocess.check_output returns and the load
\* goes on.
AmixerReturns ==
    /\ loading.active
    /\ LoadFrom(loading.configdict, MixerParseConfigDictResumed, loading.accepts)
    /\ UNCHANGED ops

\* ------------------------------------------------------------- Config.Save
\* len() of a list of the route tables.
TableLen(t) == Cardinality(DOMAIN t)

\* The two nested loops of Mixer.GetConfigDict over the route table, from
\* route (o, i) on.  The inner loop runs over range(len(self.__analog_routes[o]))
\* for both tables; an index outside a list raises IndexError.
RECURSIVE GetConfigRoutes(_, _, _, _, _, _)
GetConfigRoutes(acc, an, table, prefix, o, i) ==
    IF acc.error # "none" \/ o >= TableLen(table) THEN acc
    ELSE IF o >= TableLen(an) THEN [acc EXCEPT !.error = "IndexError"]
    ELSE IF i >= TableLen(an[o]) THEN GetConfigRoutes(acc, an, table, prefix, o + 1, 0)
    ELSE IF i >= TableLen(table[o]) THEN [acc EXCEPT !.error = "IndexError"]
    ELSE GetConfigRoutes(
            [acc EXCEPT !.options = Append(@, [prefix |-> prefix, in |-> i + 1,
                                               out |-> o + 1, value |-> table[o][i]])],
            an, table, prefix, o, i + 1)

\* The loop of Mixer.GetConfigDict over self.__fx_control_names, from the k-th
\* name on: the volume of a control, the label of the current item of an
\* enumerated one.
RECURSIVE GetConfigEffects(_, _)
GetConfigEffects(e, k) ==
    IF k > Len(FxControlNames) THEN <<>>
    ELSE LET n == FxControlNames[k]
         IN  <<[key |-> CName(n),
                value |-> IF ~FxIsEnum(n) THEN VolumeText(e[n])
                          ELSE LabelText(EnumItems[e[n]])]>>
             \o GetConfigEffects(e, k + 1)

\* Mixer.GetConfigDict on the route tables and the effects controls.
MixerGetConfigDict(an, dg, e) ==
    LET a == GetConfigRoutes([options |-> <<>>, error |-> "none"], an, an, "ain", 0, 0)
        d == GetConfigRoutes([options |-> <<>>, error |-> a.error], an, dg, "din", 0, 0)
    IN  [Analog |-> a.options, Digital |-> d.options,
         Effects |-> GetConfigEffects(e, 1), error |-> d.error]

\* Gui.GetConfigDict with the index of the linked output as the value.
GuiGetConfigDictZeroBased(l) ==
    [k \in 1..TableLen(l) |->
        [link |-> k, to |-> IF l[k - 1] = NoLink THEN 0 ELSE l[k - 1]]]

\* Gui.GetConfigDict: for every index of self.__links the key with "0" for
\* None, the number of the linked output otherwise.
GuiGetConfigDict(l) ==
    [k \in 1..TableLen(l) |->
        [link |-> k, to |-> IF l[k - 1] = NoLink THEN 0 ELSE l[k - 1] + 1]]

\* Config.Save: the dictionaries of the mixer and of the GUI, written to the
\* file.  An exception leaves the file as it was.
Save ==
    /\ ~loading.active
    /\ LET m == MixerGetConfigDict(analog_routes, digital_routes, fx)
           g == GuiGetConfigDict(links)
       IN  /\ IF m.error = "none"
              THEN /\ config_file' =
                         [exists |-> TRUE,
                          configdict |-> [sections |-> {"Analog", "Digital", "Effects", "GUI"},
                                          Analog |-> m.Analog, Digital |-> m.Digital,
                                          Effects |-> m.Effects, GUI |-> g]]
                   /\ saved_state' = [analog |-> analog_routes, digital |-> digital_routes,
                                      fx |-> fx, links |-> links]
              ELSE UNCHANGED <<config_file, saved_state>>
           /\ last' = [op |-> "Save", thread |-> "main", args |-> <<>>,
                       outcome |-> m.error, trace |-> <<>>]
    /\ observer_calls' = <<>>
    /\ UNCHANGED <<analog_routes, digital_routes, fx, hardwarerouting_sliders, masterslider,
                   links, observers, descriptors_to_routes, poll, creating, loading,
                   fdstate, polling_thread,
                   call_after, ops>>

\* Config.Load of the file Config.Save wrote.
LoadSaved ==
    /\ config_file.exists
    /\ ~loading.active
    /\ Len(call_after) < MaxQueue
    /\ ConfigLoad(config_file.configdict)
    /\ UNCHANGED ops

\* ------------------------------------------------------------- the macros
\* The button "Disable effects": Mixer.DisableEffects.
DisableEffects ==
    /\ ops < MaxOps
    /\ ~loading.active
    /\ fx' = MixerDisableEffects(fx)
    /\ last' = [op |-> "DisableEffects", thread |-> "main", args |-> <<>>,
                outcome |-> "none", trace |-> <<>>]
    /\ observer_calls' = <<>>
    /\ ops' = ops + 1
    /\ UNCHANGED <<analog_routes, digital_routes, hardwarerouting_sliders, masterslider,
                   links, observers, descriptors_to_routes, poll, creating, loading,
                   fdstate, polling_thread,
                   call_after, config_file, saved_state>>

\* The button "Mute most digital routes": Mixer.MuteMostDigitalRoutes.
MuteMostDigitalRoutes ==
    /\ ops < MaxOps
    /\ ~loading.active
    /\ digital_routes' = MixerMuteMostDigitalRoutes(digital_routes)
    /\ last' = [op |-> "MuteMostDigitalRoutes", thread |-> "main", args |-> <<>>,
                outcome |-> "none", trace |-> <<>>]
    /\ observer_calls' = <<>>
    /\ ops' = ops + 1
    /\ UNCHANGED <<analog_routes, fx, hardwarerouting_sliders, masterslider,
                   links, observers, descriptors_to_routes, poll, creating, loading,
                   fdstate, polling_thread,
                   call_after, config_file, saved_state>>

\* The loop of Gui.PassThroughInputs with the event of the slider it has set
\* handed to the handler.
RECURSIVE GuiPassThroughInputsWithEvent(_, _)
GuiPassThroughInputsWithEvent(st, c) ==
    IF c >= NumChannels \/ st.outcome # "none" THEN st
    ELSE GuiPassThroughInputsWithEvent(
            OnHardwareRouting([st EXCEPT !.sliders[c][c] = SliderSetValue(100)],
                              SliderId(c, c), c, c, 1),
            c + 1)

\* The loop of Gui.PassThroughInputs from channel c on: the slider of route
\* (c, c) is set to 100 and the handler is called with event=None.
RECURSIVE GuiPassThroughInputs(_, _)
GuiPassThroughInputs(st, c) ==
    IF c >= NumChannels \/ st.outcome # "none" THEN st
    ELSE GuiPassThroughInputs(
            OnHardwareRouting([st EXCEPT !.sliders[c][c] = SliderSetValue(100)],
                              NoEvent, c, c, 1),
            c + 1)

\* The loops of Gui.MuteHardwareRoutes from route (o, i) on: the slider is
\* set to 0 and the handler is called with event=None.
RECURSIVE GuiMuteHardwareRoutes(_, _, _)
GuiMuteHardwareRoutes(st, o, i) ==
    IF o >= NumChannels \/ st.outcome # "none" THEN st
    ELSE IF i >= NumChannels THEN GuiMuteHardwareRoutes(st, o + 1, 0)
    ELSE GuiMuteHardwareRoutes(
            OnHardwareRouting([st EXCEPT !.sliders[o][i] = SliderSetValue(0)],
                              NoEvent, o, i, 1),
            o, i + 1)

\* The button "Pass through inputs" (and --pass-through-inputs).
PassThroughInputs ==
    /\ ops < MaxOps
    /\ ~loading.active
    /\ LET st0 == [analog |-> analog_routes, digital |-> digital_routes,
                   sliders |-> hardwarerouting_sliders,
                   trace |-> <<>>, outcome |-> "none"]
           st == GuiPassThroughInputs(st0, 0)
       IN  /\ analog_routes' = st.analog
           /\ hardwarerouting_sliders' = st.sliders
           /\ last' = [op |-> "PassThroughInputs", thread |-> "main", args |-> <<>>,
                       outcome |-> st.outcome, trace |-> st.trace]
    /\ observer_calls' = <<>>
    /\ ops' = ops + 1
    /\ UNCHANGED <<digital_routes, fx, masterslider, links, observers,
                   descriptors_to_routes, poll, creating, loading,
                   fdstate, polling_thread, call_after,
                   config_file, saved_state>>

\* The button "Mute hardware routes" (and --mute-hardware-routes).
MuteHardwareRoutes ==
    /\ ops < MaxOps
    /\ ~loading.active
    /\ LET st0 == [analog |-> analog_routes, digital |-> digital_routes,
                   sliders |-> hardwarerouting_sliders,
                   trace |-> <<>>, outcome |-> "none"]
           st == GuiMuteHardwareRoutes(st0, 0, 0)
       IN  /\ analog_routes' = st.analog
           /\ hardwarerouting_sliders' = st.sliders
           /\ last' = [op |-> "MuteHardwareRoutes", thread |-> "main", args |-> <<>>,
                       outcome |-> st.outcome, trace |-> st.trace]
    /\ observer_calls' = <<>>
    /\ ops' = ops + 1
    /\ UNCHANGED <<digital_routes, fx, masterslider, links, observers,
                   descriptors_to_routes, poll, creating, loading,
                   fdstate, polling_thread, call_after,
                   config_file, saved_state>>

\* ------------------------------------------------ the hardware, from outside
\* Another program sets a route's control: the control holds the new volume
\* and its poll descriptor, if the program has opened it, becomes readable.
HardwareChange(o, i, digital, value) ==
    /\ ops < MaxOps
    /\ IF digital
       THEN /\ digital_routes' = [digital_routes EXCEPT ![o][i] = value]
            /\ UNCHANGED analog_routes
       ELSE /\ analog_routes' = [analog_routes EXCEPT ![o][i] = value]
            /\ UNCHANGED digital_routes
    /\ fdstate' = [fdstate EXCEPT ![Descriptor(o, i, digital)] =
                      IF @ = "quiet" /\ Descriptor(o, i, digital) \in poll
                      THEN "readable" ELSE @]
    /\ last' = [op |-> "HardwareChange", thread |-> "external",
                args |-> <<value, o, i, digital>>, outcome |-> "none", trace |-> <<>>]
    /\ observer_calls' = <<>>
    /\ ops' = ops + 1
    /\ UNCHANGED <<fx, config_file, saved_state>>
    /\ UNCHANGED <<hardwarerouting_sliders, masterslider, links, observers,
                   descriptors_to_routes, poll, creating, loading, polling_thread, call_after>>

\* A descriptor turns bad: "error" polls without POLLIN (POLLERR, POLLHUP);
\* "broken" polls with POLLIN, and os.read on it raises OSError.
DescriptorFault(d, kind) ==
    /\ ops < MaxOps
    /\ kind \in {"error", "broken"}
    /\ fdstate[d] = "quiet"
    /\ fdstate' = [fdstate EXCEPT ![d] = kind]
    /\ last' = [op |-> "DescriptorFault", thread |-> "external",
                args |-> <<d, kind>>, outcome |-> "none", trace |-> <<>>]
    /\ observer_calls' = <<>>
    /\ ops' = ops + 1
    /\ UNCHANGED <<fx, config_file, saved_state>>
    /\ UNCHANGED <<analog_routes, digital_routes, hardwarerouting_sliders, masterslider,
                   links, observers, descriptors_to_routes, poll, creating, loading,
                   polling_thread, call_after>>

\* -------------------------------------------------- Mixer.__PollForChanges
\* The orders in which poll() may report the descriptors of a set.
RECURSIVE Orders(_)
Orders(S) ==
    IF S = {} THEN {<<>>}
    ELSE UNION {{<<d>> \o rest : rest \in Orders(S \ {d})} : d \in S}

\* select.POLLIN is set in the event mask poll() reports for the descriptor.
PollIn(state) == state \in {"readable", "broken"}

\* The for loop over the list poll() returned, from its k-th entry on.
RECURSIVE PollLoop(_, _, _)
PollLoop(acc, ready, k) ==
    IF k > Len(ready) \/ acc.error # "none" THEN acc
    ELSE LET d == ready[k]
         IN  IF ~PollIn(fdstate[d]) THEN PollLoop(acc, ready, k + 1)
             ELSE IF d \notin DOMAIN descriptors_to_routes
             THEN [acc EXCEPT !.error = "KeyError"]
             ELSE LET route == descriptors_to_routes[d]
                      rec == IF route[3]
                             THEN [acc EXCEPT !.changed_digital_routes =
                                                  Append(@, <<route[1], route[2]>>)]
                             ELSE [acc EXCEPT !.changed_analog_routes =
                                                  Append(@, <<route[1], route[2]>>)]
                  IN  PollLoop(
                         IF fdstate[d] = "broken" THEN [rec EXCEPT !.error = "OSError"]
                         ELSE [rec EXCEPT !.fdstate[d] = "quiet"],
                         ready, k + 1)

\* One pass of the polling thread's loop: poll, read the ready descriptors,
\* call the observers.  An exception ends the thread.
PollForChanges ==
    /\ polling_thread = "running"
    /\ \E ready \in Orders({d \in poll : fdstate[d] # "quiet"}) :
          LET r == PollLoop([changed_analog_routes |-> <<>>, changed_digital_routes |-> <<>>,
                             fdstate |-> fdstate, error |-> "none"], ready, 1)
              gs == IF r.error = "none" /\
                       (r.changed_analog_routes # <<>> \/ r.changed_digital_routes # <<>>)
                    THEN CallObservers(GuiState, 1, r.changed_analog_routes,
                                       r.changed_digital_routes, analog_routes, digital_routes)
                    ELSE GuiState
          IN  /\ fdstate' = r.fdstate
              /\ polling_thread' = IF r.error = "none" THEN "running" ELSE "dead"
              /\ hardwarerouting_sliders' = gs.sliders
              /\ masterslider' = gs.master
              /\ call_after' = gs.queue
              /\ observer_calls' = gs.calls
              /\ last' = [op |-> "PollForChanges", thread |-> "watcher", args |-> <<ready>>,
                          outcome |-> r.error,
                          trace |-> SelectSeq(ready, LAMBDA d : PollIn(fdstate[d]))]
    /\ UNCHANGED <<fx, config_file, saved_state>>
    /\ UNCHANGED <<analog_routes, digital_routes, links, observers,
                   descriptors_to_routes, poll, creating, loading, ops>>

\* ------------------------------------------------------------ wx main loop
\* The main loop runs the oldest worker queued with wx.CallAfter.
Worker ==
    /\ call_after # <<>>
    /\ ~loading.active
    /\ LET w == Head(call_after)
           gs == WorkerBody(GuiState, w, analog_routes, digital_routes)
       IN  /\ hardwarerouting_sliders' = gs.sliders
           /\ masterslider' = gs.master
           /\ last' = [op |-> "worker", thread |-> "main", args |-> <<w>>,
                       outcome |-> "none", trace |-> <<>>]
    /\ call_after' = Tail(call_after)
    /\ observer_calls' = <<>>
    /\ UNCHANGED <<fx, config_file, saved_state>>
    /\ UNCHANGED <<analog_routes, digital_routes, links, observers,
                   descriptors_to_routes, poll, creating, loading, fdstate, polling_thread, ops>>

\* ------------------------------------------------------- Mixer.__init__
\* Mixer.__init__ after self.__polling_thread.start(): the polling thread
\* runs, no route has been created and there is no Gui yet.
InitConstruction ==
    \E a0 \in InitVolumes, d0 \in InitVolumes, e0 \in InitVolumes :
       /\ analog_routes = [o \in Chan |-> [i \in Chan |-> a0]]
       /\ digital_routes = [o \in Chan |-> [i \in Chan |-> d0]]
       /\ fx = [n \in {FxControlNames[k] : k \in 1..Len(FxControlNames)} |->
                   IF FxIsEnum(n) THEN 1 ELSE e0]
       /\ hardwarerouting_sliders = <<>>
       /\ masterslider = 0
       /\ links = <<>>
       /\ observers = <<>>
       /\ descriptors_to_routes = <<>>
       /\ poll = {}
       /\ creating = [next |-> 0, step |-> "register", mastervalue |-> 0]
       /\ fdstate = [d \in Descriptors |-> "quiet"]
       /\ polling_thread = "running"
       /\ call_after = <<>>
       /\ observer_calls = <<>>
       /\ last = [op |-> "start", thread |-> "main", args |-> <<>>, outcome |-> "none",
                  trace |-> <<>>]
       /\ ops = 0
       /\ config_file = [exists |-> FALSE, configdict |-> EmptyConfigDict]
       /\ saved_state = [analog |-> <<>>, digital |-> <<>>, fx |-> <<>>, links |-> <<>>]
       /\ loading = NotLoading

\* Mixer.__CreateRoute up to self.__poll.register(*descriptor): the control
\* is opened and its descriptor is registered with the poll object.
CreateRouteRegister ==
    /\ creating.step = "register"
    /\ creating.next \in Descriptors
    /\ poll' = poll \cup {creating.next}
    /\ creating' = [creating EXCEPT !.step = "map"]
    /\ last' = [op |-> "CreateRoute.register", thread |-> "main",
                args |-> <<creating.next>>, outcome |-> "none", trace |-> <<>>]
    /\ observer_calls' = <<>>
    /\ UNCHANGED <<analog_routes, digital_routes, hardwarerouting_sliders, masterslider,
                   links, observers, descriptors_to_routes, fdstate, polling_thread,
                   call_after, ops, fx, config_file, saved_state, loading>>

\* The last statement of Mixer.__CreateRoute: the entry of the descriptor is
\* written to self.__descriptors_to_routes.
CreateRouteMap ==
    /\ creating.step = "map"
    /\ descriptors_to_routes' =
          [d \in DOMAIN descriptors_to_routes \cup {creating.next} |-> RouteOf(d)]
    /\ creating' = [creating EXCEPT !.next = @ + 1, !.step = "register"]
    /\ last' = [op |-> "CreateRoute.map", thread |-> "main",
                args |-> <<creating.next>>, outcome |-> "none", trace |-> <<>>]
    /\ observer_calls' = <<>>
    /\ UNCHANGED <<analog_routes, digital_routes, hardwarerouting_sliders, masterslider,
                   links, observers, poll, fdstate, polling_thread,
                   call_after, ops, fx, config_file, saved_state, loading>>

\* The end of Mixer.__init__, after the last route: the macros asked for on
\* the command line.  Gui.__init__ follows.
MixerInitMacros(startup) ==
    /\ creating.step = "register"
    /\ creating.next \notin Descriptors
    /\ LET disable_effects == startup[1]
           mute_most_digital_routes == startup[2]
       IN  /\ digital_routes' = IF mute_most_digital_routes
                                THEN MixerMuteMostDigitalRoutes(digital_routes)
                                ELSE digital_routes
           /\ fx' = IF disable_effects THEN MixerDisableEffects(fx) ELSE fx
    /\ creating' = [next |-> 0, step |-> "slider", mastervalue |-> 0]
    /\ last' = [op |-> "Mixer.init", thread |-> "main", args |-> <<startup>>,
                outcome |-> "none", trace |-> <<>>]
    /\ observer_calls' = <<>>
    /\ UNCHANGED <<analog_routes, hardwarerouting_sliders, masterslider, links, observers,
                   descriptors_to_routes, poll, fdstate, polling_thread,
                   call_after, ops, config_file, saved_state, loading>>

\* Gui.__init__ creates the slider of the next analog route (o, i) and sets
\* it to the volume the route has now; after the last slider of an output,
\* the output's entry of self.__links is appended and the loop goes on to
\* read the output's digital route for mastervalue.
GuiCreateSlider ==
    /\ creating.step = "slider"
    /\ LET o == creating.next \div NumChannels
           i == creating.next % NumChannels
       IN  /\ hardwarerouting_sliders' =
                 [x \in 0..o |->
                    [y \in 0..(IF x = o THEN i ELSE NumChannels - 1) |->
                        IF x = o /\ y = i THEN SliderSetValue(GetVolume(o, i, FALSE))
                        ELSE hardwarerouting_sliders[x][y]]]
           /\ links' = IF i = NumChannels - 1 THEN [x \in 0..o |-> NoLink] ELSE links
           /\ creating' = IF i + 1 < NumChannels
                          THEN [creating EXCEPT !.next = @ + 1]
                          ELSE [creating EXCEPT !.next = o, !.step = "master"]
           /\ last' = [op |-> "Gui.init.slider", thread |-> "main", args |-> <<o, i>>,
                       outcome |-> "none", trace |-> <<>>]
    /\ observer_calls' = <<>>
    /\ UNCHANGED <<analog_routes, digital_routes, masterslider, observers,
                   descriptors_to_routes, poll, fdstate, polling_thread,
                   call_after, ops, fx, config_file, saved_state, loading>>

\* The last statement of Gui.__init__'s loop over the outputs: the volume of
\* the digital route (o, o) is added to mastervalue.  The sliders of the next
\* output follow, or the master slider after the last output.
GuiReadMaster ==
    /\ creating.step = "master"
    /\ LET o == creating.next
       IN  /\ creating' = [next |-> IF o + 1 < NumChannels THEN (o + 1) * NumChannels ELSE 0,
                           step |-> IF o + 1 < NumChannels THEN "slider" ELSE "masterslider",
                           mastervalue |-> creating.mastervalue + GetVolume(o, o, TRUE)]
           /\ last' = [op |-> "Gui.init.mastervalue", thread |-> "main", args |-> <<o>>,
                       outcome |-> "none", trace |-> <<>>]
    /\ observer_calls' = <<>>
    /\ UNCHANGED <<analog_routes, digital_routes, hardwarerouting_sliders, masterslider,
                   links, observers, descriptors_to_routes, poll, fdstate, polling_thread,
                   call_after, ops, fx, config_file, saved_state, loading>>

\* Gui.__init__ sets the master slider to the mean it has computed.
GuiSetMaster ==
    /\ creating.step = "masterslider"
    /\ masterslider' = SliderSetValue(RoundDiv(creating.mastervalue, NumChannels))
    /\ creating' = [creating EXCEPT !.step = "observer"]
    /\ last' = [op |-> "Gui.init.masterslider", thread |-> "main", args |-> <<>>,
                outcome |-> "none", trace |-> <<>>]
    /\ observer_calls' = <<>>
    /\ UNCHANGED <<analog_routes, digital_routes, hardwarerouting_sliders,
                   links, observers, descriptors_to_routes, poll, fdstate, polling_thread,
                   call_after, ops, fx, config_file, saved_state, loading>>

\* The last statement of Gui.__init__: the Gui's observer is added.
GuiAddObserver ==
    /\ creating.step = "observer"
    /\ observers' = Append(observers, "gui")
    /\ creating' = Created
    /\ last' = [op |-> "init", thread |-> "main", args |-> <<>>, outcome |-> "none",
                trace |-> <<>>]
    /\ observer_calls' = <<>>
    /\ UNCHANGED <<analog_routes, digital_routes, hardwarerouting_sliders, masterslider,
                   links, descriptors_to_routes, poll, fdstate, polling_thread,
                   call_after, ops, fx, config_file, saved_state, loading>>

\* ------------------------------------------------------- specifications
\* The command path: calls made from the main thread.
Commands ==
    \/ \E v \in AnyValues, o \in Chan, i \in Chan, digital \in BOOLEAN :
          SetVolume(v, o, i, digital)
    \/ \E v \in Volumes, o \in Chan, i \in Chan : MoveSlider(o, i, v)
    \/ \E v \in Volumes : OnMaster(v)
    \/ \E o \in Chan, k \in 0..NumChannels : OnLink(o, k)
    \/ \E configdict \in ConfigDicts : Load(configdict)
    \/ AmixerReturns
    \/ DisableEffects
    \/ MuteMostDigitalRoutes
    \/ PassThroughInputs
    \/ MuteHardwareRoutes

\* The hardware, the polling thread and the work it hands to the main loop.
Watcher ==
    \/ \E v \in Volumes, o \in Chan, i \in Chan, digital \in BOOLEAN :
          HardwareChange(o, i, digital, v)
    \/ \E d \in Descriptors, kind \in {"error", "broken"} : DescriptorFault(d, kind)
    \/ AddObserver
    \/ PollForChanges
    \/ Worker

\* The config file: written, and read back.
Configuration ==
    \/ Save
    \/ LoadSaved

Next == Commands \/ Watcher \/ Configuration

Spec == Init /\ [][Next]_vars

SpecCommands == Init /\ [][Commands]_vars

SpecWatcher == Init /\ [][Watcher]_vars

\* The polling thread is a thread of its own and the main loop keeps running:
\* neither waits for ever while it can take a step.
SpecWatcherFair == SpecWatcher /\ WF_vars(PollForChanges) /\ WF_vars(Worker)

\* The command path and the polling thread, without the config file.
SpecThreads == Init /\ [][Commands \/ Watcher]_vars

\* What changes the routes, the effects controls and the links between a
\* Save and a Load.
ConfigChanges ==
    \/ \E v \in {70, 101}, o \in Chan, i \in Chan, digital \in BOOLEAN :
          SetVolume(v, o, i, digital)
    \/ \E o \in Chan, k \in 0..NumChannels : OnLink(o, k)
    \/ \E e \in {<<[key |-> "effect_program", value |-> LabelText("Hall 1")]>>,
                  <<[key |-> "effect_volume", value |-> VolumeText(70)]>>} :
          Load([EmptyConfigDict EXCEPT !.sections = {"Effects"}, !.Effects = e])
    \/ AmixerReturns
    \/ \E o \in Chan, i \in Chan : MoveSlider(o, i, 70)
    \/ DisableEffects
    \/ MuteMostDigitalRoutes

\* The config file saved and loaded, with changes in between.
SpecConfig == Init /\ [][ConfigChanges \/ Configuration \/ Worker]_vars

\* Links set by the user, and changes made by other programs echoed to the
\* sliders.
SpecEcho ==
    Init /\ [][\/ \E o \in Chan, k \in 0..NumChannels : OnLink(o, k)
               \/ \E o \in Chan, i \in Chan, digital \in BOOLEAN :
                     HardwareChange(o, i, digital, 70)
               \/ PollForChanges
               \/ Worker]_vars

\* The macros of the mixer, between changes of digital routes and of effects
\* controls.
SpecMacros ==
    Init /\ [][\/ DisableEffects
               \/ MuteMostDigitalRoutes
               \/ \E v \in {70, 101}, o \in Chan, i \in Chan : SetVolume(v, o, i, TRUE)
               \/ \E e \in EffectOptions :
                     Load([EmptyConfigDict EXCEPT !.sections = {"Effects"}, !.Effects = e])
               \/ AmixerReturns
               \/ OnMaster(70)
              ]_vars

\* GUI sections that link two outputs to each other, and three in a row.
LinkedOptions ==
    {<<[link |-> 1, to |-> 2], [link |-> 2, to |-> 1]>>,
     <<[link |-> 1, to |-> 2], [link |-> 3, to |-> 1]>>}

\* The macros of the analog routes, with links set by the user or loaded
\* from a file, and sliders moved.
SpecGuiMacros ==
    Init /\ [][\/ PassThroughInputs
               \/ MuteHardwareRoutes
               \/ \E o \in Chan, k \in 0..NumChannels : OnLink(o, k)
               \/ \E g \in OddLinkOptions \cup LinkedOptions :
                     Load([EmptyConfigDict EXCEPT !.sections = {"GUI"}, !.GUI = g])
               \/ \E o \in Chan, i \in Chan : MoveSlider(o, i, 70)
              ]_vars

\* The construction of the Mixer and the Gui by the main thread, while the
\* polling thread runs and other programs change controls.
Construction ==
    \/ CreateRouteRegister
    \/ CreateRouteMap
    \/ \E startup \in StartupOptions : MixerInitMacros(startup)
    \/ GuiCreateSlider
    \/ GuiReadMaster
    \/ GuiSetMaster
    \/ GuiAddObserver
    \/ \E o \in Chan, i \in Chan, digital \in BOOLEAN : HardwareChange(o, i, digital, 70)
    \/ PollForChanges
    \/ Worker

SpecConstruction == InitConstruction /\ [][Construction]_vars

\* Config.Save on any card, after the macros of the mixer.
SpecSnapshot == InitAnyCard /\ [][Save \/ DisableEffects \/ MuteMostDigitalRoutes]_vars

\* ---------------------------------------------------------------- claims
\* The outputs of the channel list reached from output o by following links,
\* o's own link first; seen are the outputs already passed.
RECURSIVE LinkChain(_, _)
LinkChain(o, seen) ==
    LET t == links[o]
    IN  IF t = NoLink \/ t \notin Chan \/ t \in seen THEN {}
        ELSE {t} \cup LinkChain(t, seen \cup {t})

\* Every link names another output of the card, or none.
LinksWellFormed == \A o \in Chan : links[o] = NoLink \/ (links[o] \in Chan /\ links[o] # o)

\* Whether a sequence lists some element twice.
HasRepeats(seq) == \E j, k \in 1..Len(seq) : j # k /\ seq[j] = seq[k]

\* C1: after SetVolume(v, o, i, d) with v in 0..100 has returned,
\* GetVolume(o, i, d) is v.
C1_SetVolumeThenGetVolume ==
    (last.op = "SetVolume" /\ last.args[1] \in 0..100)
        => /\ last.outcome = "none"
           /\ GetVolume(last.args[2], last.args[3], last.args[4]) = last.args[1]

C1_Witness ==
    /\ last.op = "SetVolume" /\ last.args = <<70, 1, 2, TRUE>>
    /\ last.outcome = "none"
    /\ digital_routes[1][2] = 70
    /\ analog_routes[1][2] = 30

\* C2: SetVolume with a value outside 0..100 fails and leaves every route's
\* volume as it was.
C2_InvalidValueRejected ==
    [][(last'.op = "SetVolume" /\ last'.args[1] \notin 0..100)
          => /\ last'.outcome # "none"
             /\ analog_routes' = analog_routes
             /\ digital_routes' = digital_routes]_vars

\* C3: after the user moved the slider of route (o, i) to v, every output on
\* the chain of links from o has its analog route for input i at v.
C3_CascadeFollowsLinks ==
    last.op = "MoveSlider"
        => \A x \in {last.args[2]} \cup LinkChain(last.args[2], {}) :
              analog_routes[x][last.args[3]] = last.args[1]

C3_Witness ==
    /\ last.op = "MoveSlider" /\ last.args[1] = 70
    /\ \E l, m \in Chan :
          /\ Cardinality({last.args[2], l, m}) = 3
          /\ links[last.args[2]] = l /\ links[l] = m /\ links[m] = NoLink
          /\ analog_routes[l][last.args[3]] = 70
          /\ analog_routes[m][last.args[3]] = 70

\* C4: with two outputs linked to each other, moving a slider of either one
\* ends after finitely many calls of the handler: one per output.
C4_TwoCycleTerminates ==
    (last.op = "MoveSlider" /\
     \E b \in Chan : b # last.args[2] /\ links[last.args[2]] = b /\ links[b] = last.args[2])
        => /\ last.outcome = "none"
           /\ last.trace = <<last.args[2], links[last.args[2]]>>

C4_Witness ==
    /\ last.op = "MoveSlider" /\ last.outcome = "none"
    /\ \E b \in Chan : b # last.args[2] /\ links[last.args[2]] = b /\ links[b] = last.args[2]
    /\ Len(last.trace) = 2
    /\ analog_routes[links[last.args[2]]][last.args[3]] = last.args[1]

\* C5: whatever links are set, moving a slider ends, and the handler runs at
\* most once for each output.
C5_CascadeVisitsOnce ==
    (last.op = "MoveSlider" /\ LinksWellFormed)
        => /\ last.outcome # "RecursionError"
           /\ ~HasRepeats(last.trace)

\* C6: no output is ever linked to itself.
C6_NoSelfLink == \A o \in Chan : links[o] # o

\* The routes of a set of descriptors, as <<output, input, digital>>.
RoutesOf(ds) == {descriptors_to_routes[d] : d \in ds}

\* The routes an observer was called with, as <<output, input, digital>>.
RoutesIn(call) ==
    {<<call.analog[k][1], call.analog[k][2], FALSE>> : k \in 1..Len(call.analog)}
    \cup {<<call.digital[k][1], call.digital[k][2], TRUE>> : k \in 1..Len(call.digital)}

\* The descriptors that polled with POLLIN in the last pass of the polling thread.
Signaled == {last.trace[k] : k \in 1..Len(last.trace)}

\* Every observer was called once, in order, with exactly these routes.
DispatchedOnce(routes) ==
    /\ Len(observer_calls) = Len(observers)
    /\ \A k \in 1..Len(observers) :
          /\ observer_calls[k].observer = k
          /\ RoutesIn(observer_calls[k]) = routes
          /\ Len(observer_calls[k].analog) + Len(observer_calls[k].digital)
                = Cardinality(routes)

\* C7: a pass of the polling thread in which controls signaled calls every
\* observer once with all the routes that signaled; a pass in which none did
\* calls no observer.
C7_OneDispatchPerCycle ==
    last.op = "PollForChanges"
        => IF Signaled # {}
           THEN DispatchedOnce(RoutesOf(Signaled))
           ELSE observer_calls = <<>>

\* What C7 says, for the passes in which every read succeeded.
C7_WhenReadsSucceed ==
    (last.op = "PollForChanges" /\ last.outcome = "none")
        => IF Signaled # {}
           THEN DispatchedOnce(RoutesOf(Signaled))
           ELSE observer_calls = <<>>

\* A change of descriptor d's control was reported to every observer, in the
\* list of its domain, and its notification was read off the descriptor.
Reported(d) ==
    /\ fdstate[d] = "quiet"
    /\ Len(observer_calls) = Len(observers)
    /\ \A k \in 1..Len(observers) : descriptors_to_routes[d] \in RoutesIn(observer_calls[k])

\* C8: a change a control signaled is eventually reported to every observer
\* and drained.
C8_ChangeEventuallyReported ==
    \A d \in Descriptors : (fdstate[d] = "readable") ~> Reported(d)

\* C9: the polling thread writes no route, no slider of a route and no link:
\* every such write is made by the main thread, one handler at a time.
C9_WritesOnMainThread ==
    [][last'.thread = "watcher"
          => UNCHANGED <<analog_routes, digital_routes, links,
                         hardwarerouting_sliders, masterslider>>]_vars

C9_Witness ==
    /\ last.op = "worker" /\ last.thread = "main"
    /\ \E k \in 1..Len(last.args[1].analog) :
          LET o == last.args[1].analog[k][1]
              i == last.args[1].analog[k][2]
          IN  /\ o \in Chan /\ i \in Chan
              /\ analog_routes[o][i] = 70
              /\ hardwarerouting_sliders[o][i] = 70

\* A read failed in the last pass of the polling thread.
ReadFailed ==
    /\ last.op = "PollForChanges"
    /\ \E d \in Signaled : fdstate[d] = "broken"

\* C10: a failing read of one control does not end the polling thread, and
\* the other controls that signaled in that pass are still dispatched.
C10_WatcherSurvivesReadFailure ==
    /\ polling_thread = "running"
    /\ ReadFailed =>
          LET others == {d \in Signaled : fdstate[d] # "broken"}
          IN  others # {} =>
                 /\ Len(observer_calls) = Len(observers)
                 /\ \A k \in 1..Len(observers) :
                       RoutesOf(others) \subseteq RoutesIn(observer_calls[k])

\* The volumes of the routes and of the effects controls at the time of the
\* Save are in 0..100.
SavedInRange ==
    /\ \A o \in DOMAIN saved_state.analog : \A i \in DOMAIN saved_state.analog[o] :
          saved_state.analog[o][i] \in 0..100
    /\ \A o \in DOMAIN saved_state.digital : \A i \in DOMAIN saved_state.digital[o] :
          saved_state.digital[o][i] \in 0..100
    /\ \A n \in DOMAIN saved_state.fx : saved_state.fx[n] \in 0..100

\* The last operation loaded the file Config.Save wrote.
LoadedSaved ==
    /\ last.op = "Load"
    /\ config_file.exists
    /\ last.args[1] = config_file.configdict

\* C11: loading the file that Save wrote gives back the route volumes, the
\* effects values and the link table of the time of the Save, whatever was
\* changed in between.  (A volume outside 0..100 is in a saved state only on
\* a backend that stores it; the load then ends as that backend decides.)
C11_RoundTrip ==
    LoadedSaved =>
        /\ SavedInRange => last.outcome = "none"
        /\ last.outcome = "none" =>
              /\ analog_routes = saved_state.analog
              /\ digital_routes = saved_state.digital
              /\ fx = saved_state.fx
              /\ links = saved_state.links

C11_Witness ==
    /\ LoadedSaved /\ last.outcome = "none"
    /\ \E o \in Chan : saved_state.links[o] # NoLink
    /\ \E n \in DOMAIN fx : FxIsEnum(n) /\ fx[n] = 1
    /\ \E n \in DOMAIN fx : FxHasVolume(n) /\ fx[n] = 30
    /\ \E o \in Chan, i \in Chan :
          /\ hardwarerouting_sliders[o][i] = 70
          /\ analog_routes[o][i] = 30

\* The options of a route section are the routes of the table, each once,
\* under its 1-based key, with its volume.
SnapshotOf(options, table, prefix) ==
    /\ \A o \in DOMAIN table : \A i \in DOMAIN table[o] :
          Cardinality({k \in 1..Len(options) :
                          options[k].in = i + 1 /\ options[k].out = o + 1}) = 1
    /\ \A k \in 1..Len(options) :
          /\ options[k].prefix = prefix
          /\ options[k].out - 1 \in DOMAIN table
          /\ options[k].in - 1 \in DOMAIN table[options[k].out - 1]
          /\ options[k].value = table[options[k].out - 1][options[k].in - 1]

\* The Effects options are the effects controls, each once, with the volume
\* or the label of the current item.
SnapshotOfEffects(options) ==
    /\ Len(options) = Cardinality(DOMAIN fx)
    /\ \A n \in DOMAIN fx :
          \E k \in 1..Len(options) :
             /\ options[k].key = CName(n)
             /\ options[k].value = IF FxIsEnum(n) THEN LabelText(EnumItems[fx[n]])
                                   ELSE VolumeText(fx[n])

\* The file holds a complete snapshot of the present state.
FileIsSnapshot ==
    /\ config_file.exists
    /\ SnapshotOf(config_file.configdict.Analog, analog_routes, "ain")
    /\ SnapshotOf(config_file.configdict.Digital, digital_routes, "din")
    /\ SnapshotOfEffects(config_file.configdict.Effects)

\* C12: Save ends with a dictionary that has one key for every analog and
\* every digital route of the card, with its volume, and one for every
\* effects control, whatever the sizes of the two route tables are.
C12_SnapshotComplete ==
    last.op = "Save" => (last.outcome = "none" /\ FileIsSnapshot)

\* What C12 says, for the cards whose digital route table has the size of
\* the analog one.
C12_WhenSameSize ==
    (/\ last.op = "Save"
     /\ TableLen(digital_routes) = TableLen(analog_routes)
     /\ \A o \in DOMAIN digital_routes :
           TableLen(digital_routes[o]) = TableLen(analog_routes[o]))
        => (last.outcome = "none" /\ FileIsSnapshot)

\* A key of a route section names a route of the card: it has the prefix of
\* the section and two channel numbers in 1..N.
KnownRouteKey(option, prefix) ==
    /\ option.prefix = prefix
    /\ option.in \in 1..NumChannels
    /\ option.out \in 1..NumChannels

\* A key of the GUI section names an output of the card.
KnownLinkKey(option) == option.link \in 1..NumChannels

\* A key of the Effects section names an effects control of the card.
KnownEffectKey(option) ==
    \E k \in 1..Len(FxControlNames) : CName(FxControlNames[k]) = option.key

\* Every key of the dictionary names a control or an output of the card.
AllKeysKnown(configdict) ==
    /\ \A k \in 1..Len(configdict.Analog) : KnownRouteKey(configdict.Analog[k], "ain")
    /\ \A k \in 1..Len(configdict.Digital) : KnownRouteKey(configdict.Digital[k], "din")
    /\ \A k \in 1..Len(configdict.Effects) : KnownEffectKey(configdict.Effects[k])
    /\ \A k \in 1..Len(configdict.GUI) : KnownLinkKey(configdict.GUI[k])

\* No key of the dictionary names a control or an output of the card, and it
\* has a key.
NoKeyKnown(configdict) ==
    /\ \A k \in 1..Len(configdict.Analog) : ~KnownRouteKey(configdict.Analog[k], "ain")
    /\ \A k \in 1..Len(configdict.Digital) : ~KnownRouteKey(configdict.Digital[k], "din")
    /\ \A k \in 1..Len(configdict.Effects) : ~KnownEffectKey(configdict.Effects[k])
    /\ \A k \in 1..Len(configdict.GUI) : ~KnownLinkKey(configdict.GUI[k])
    /\ Len(configdict.Analog) + Len(configdict.Digital)
          + Len(configdict.Effects) + Len(configdict.GUI) > 0

\* The section has the key of route (o, i).
HasRouteKey(options, o, i) ==
    \E k \in 1..Len(options) : options[k].in = i + 1 /\ options[k].out = o + 1

\* A load left alone every route, effects control and link whose key the
\* dictionary does not have.
KeylessControlsUnchanged(configdict) ==
    /\ \A o \in Chan, i \in Chan :
          /\ ~HasRouteKey(configdict.Analog, o, i)
                => analog_routes'[o][i] = analog_routes[o][i]
          /\ ~HasRouteKey(configdict.Digital, o, i)
                => digital_routes'[o][i] = digital_routes[o][i]
    /\ \A n \in DOMAIN fx :
          (\A k \in 1..Len(configdict.Effects) : configdict.Effects[k].key # CName(n))
             => fx'[n] = fx[n]
    /\ \A o \in Chan :
          (\A k \in 1..Len(configdict.GUI) : configdict.GUI[k].link # o + 1)
             => links'[o] = links[o]

\* C13: a load changes only the routes, effects controls and links for which
\* the dictionary has a key (in each of its steps, when it waits for amixer).
C13_OnlyKeyedControlsChange ==
    [][last'.op \in {"Load", "Load.amixer"}
          => KeylessControlsUnchanged(last'.args[1])]_vars

\* What C13 says, for the dictionaries whose keys all name a control or an
\* output of the card.
C13_WhenKeysKnown ==
    [][(last'.op \in {"Load", "Load.amixer"} /\ AllKeysKnown(last'.args[1]))
          => KeylessControlsUnchanged(last'.args[1])]_vars

\* C14: a load of keys that name no effects control, no route and no output
\* of the card (another name, a malformed key, a channel number 0 or above N)
\* returns and changes no route, no effects control and no link.
C14_UnknownKeysSkipped ==
    [][(last'.op = "Load" /\ NoKeyKnown(last'.args[1]))
          => /\ last'.outcome = "none"
             /\ UNCHANGED <<analog_routes, digital_routes, fx, links>>]_vars

\* What C14 says, for the names that are no effects control of the card.
C14_UnknownEffectSkipped ==
    [][(/\ last'.op = "Load"
        /\ NoKeyKnown(last'.args[1])
        /\ last'.args[1].sections = {"Effects"})
          => /\ last'.outcome = "none"
             /\ UNCHANGED <<analog_routes, digital_routes, fx, links>>]_vars

\* C15: MuteMostDigitalRoutes sets the digital routes (o, i) with o # i to 0
\* and leaves the digital routes (o, o), the analog routes and the effects
\* controls as they were.
C15_MuteMostDigitalRoutes ==
    [][last'.op = "MuteMostDigitalRoutes"
          => /\ \A o \in Chan, i \in Chan :
                   digital_routes'[o][i] = IF o # i THEN 0 ELSE digital_routes[o][i]
             /\ UNCHANGED <<analog_routes, fx>>]_vars

C15_Witness ==
    /\ last.op = "MuteMostDigitalRoutes" /\ ops = 2
    /\ \E c \in Chan : digital_routes[c][c] = 70
    /\ \E c \in Chan : digital_routes[c][c] = 30
    /\ \A o \in Chan, i \in Chan : o # i => digital_routes[o][i] = 0
    /\ \E n \in DOMAIN fx : FxHasVolume(n) /\ fx[n] = 30

\* C16: DisableEffects sets the effects controls that have a volume to 0 and
\* leaves the enumerated ones and every route as they were.
C16_DisableEffects ==
    [][last'.op = "DisableEffects"
          => /\ \A n \in DOMAIN fx :
                   fx'[n] = IF FxHasVolume(n) THEN 0 ELSE fx[n]
             /\ UNCHANGED <<analog_routes, digital_routes>>]_vars

C16_Witness ==
    /\ last.op = "DisableEffects" /\ ops = 2
    /\ \E n \in DOMAIN fx : FxHasVolume(n) /\ fx[n] = 0
    /\ \E n \in DOMAIN fx : FxIsEnum(n) /\ EnumItems[fx[n]] = "Hall 1"
    /\ \E o \in Chan, i \in Chan : o # i /\ digital_routes[o][i] = 30

\* C17: moving a slider of a linked output calls every observer once, with
\* the routes of all the outputs the handler wrote.
C17_OneDispatchPerCascade ==
    (last.op = "MoveSlider" /\ Len(last.trace) > 1)
        => DispatchedOnce({<<last.trace[k], last.args[3], FALSE>> :
                              k \in 1..Len(last.trace)})

\* The routes a load set, as <<output, input, digital>>.
RoutesSet(configdict) ==
    {<<PyIndex(configdict.Analog[k].out - 1, NumChannels),
       PyIndex(configdict.Analog[k].in - 1, NumChannels), FALSE>> :
        k \in 1..Len(configdict.Analog)}
    \cup {<<PyIndex(configdict.Digital[k].out - 1, NumChannels),
            PyIndex(configdict.Digital[k].in - 1, NumChannels), TRUE>> :
            k \in 1..Len(configdict.Digital)}

\* Mixer.ParseConfigDict returned in the last load.
Applied == last.op = "Load" /\ last.trace # <<"Mixer.ParseConfigDict">>

\* C18: a load in which Mixer.ParseConfigDict has applied all keys has called
\* every observer once, with exactly the routes it set.
C18_OneDispatchPerApply ==
    Applied => DispatchedOnce(RoutesSet(last.args[1]))

\* What C18 says, for the dictionaries whose keys all name a control or an
\* output of the card.
C18_WhenKeysKnown ==
    (Applied /\ AllKeysKnown(last.args[1])) => DispatchedOnce(RoutesSet(last.args[1]))

\* The analog routes in the list a worker was queued with.
EchoedAnalog(w) ==
    {<<PyIndex(w.analog[k][1], NumChannels), PyIndex(w.analog[k][2], NumChannels)>> :
        k \in 1..Len(w.analog)}

\* C19: when a change found by the polling thread is passed to the observers
\* and shown on the sliders, no route is written and no link is followed:
\* only the sliders of the routes that changed move.
C19_EchoDoesNotCascade ==
    [][last'.op \in {"PollForChanges", "worker"}
          => /\ UNCHANGED <<analog_routes, digital_routes, links>>
             /\ \A o \in Chan, i \in Chan :
                   hardwarerouting_sliders'[o][i] # hardwarerouting_sliders[o][i]
                      => /\ last'.op = "worker"
                         /\ <<o, i>> \in EchoedAnalog(last'.args[1])]_vars

C19_Witness ==
    /\ last.op = "worker"
    /\ \E o \in Chan, i \in Chan :
          /\ <<o, i>> \in EchoedAnalog(last.args[1])
          /\ links[o] \in Chan
          /\ analog_routes[o][i] = 70 /\ hardwarerouting_sliders[o][i] = 70
          /\ analog_routes[links[o]][i] = 30
          /\ hardwarerouting_sliders[links[o]][i] = 30

\* C20: every route's volume is in 0..100.
C20_VolumesInRange ==
    \A o \in Chan, i \in Chan :
       /\ analog_routes[o][i] \in 0..100
       /\ digital_routes[o][i] \in 0..100

\* C21: PassThroughInputs sets every analog route (c, c) to 100 and changes
\* no other analog route, no digital route and no link, whatever the links
\* are: the volume 100 is not copied to the routes of linked outputs.
C21_PassThroughInputs ==
    [][(last'.op = "PassThroughInputs" /\ ops' # ops)
          => /\ last'.outcome = "none"
             /\ \A o \in Chan, i \in Chan :
                   analog_routes'[o][i] = IF o = i THEN 100 ELSE analog_routes[o][i]
             /\ UNCHANGED <<digital_routes, links, fx>>]_vars

C21_Witness ==
    /\ last.op = "PassThroughInputs" /\ ops = 2
    /\ \E o \in Chan : links[o] \in Chan /\ links[o] # o
                       /\ analog_routes[links[o]][o] = 30
                       /\ analog_routes[o][o] = 100

\* C22: every descriptor the polling thread gets from poll() has an entry in
\* self.__descriptors_to_routes, also while Mixer.__init__ is still creating
\* routes.
C22_ReadyDescriptorsMapped ==
    [][last'.op = "PollForChanges"
          => /\ \A k \in 1..Len(last'.args[1]) :
                   last'.args[1][k] \in DOMAIN descriptors_to_routes
             /\ last'.outcome # "KeyError"]_vars

\* C22, for the program once it is constructed: no poll ends in a KeyError.
C22_WhenConstructed ==
    [][(last'.op = "PollForChanges" /\ creating = Created)
          => last'.outcome # "KeyError"]_vars

\* C23: the link table has one entry per output, and every entry is "no
\* link" or an output 0..N-1 of the card; a loaded linking section never
\* stores a link to an output that does not exist.
C23_LinksInRange ==
    /\ DOMAIN links = Chan
    /\ \A o \in Chan : links[o] = NoLink \/ links[o] \in Chan

\* C23, for the "Link to" selectors alone: Gui.__OnLink stores no link to an
\* output that does not exist.
C23_SelectorKeepsRange ==
    [][(last'.op = "OnLink" /\ ops' # ops /\ C23_LinksInRange) => C23_LinksInRange']_vars

\* C24: when the user moves the slider of analog route (o, i), the only
\* routes that change are analog routes (x, i) with x = o or x reached from
\* o by following links; the digital routes and the links stay.
C24_CascadeFrame ==
    [][(last'.op = "MoveSlider" /\ ops' # ops)
          => LET o == last'.args[2]
                 i == last'.args[3]
             IN  /\ \A x \in Chan, y \in Chan :
                       analog_routes'[x][y] # analog_routes[x][y]
                          => y = i /\ x \in {o} \cup LinkChain(o, {})
                 /\ UNCHANGED <<digital_routes, links>>]_vars

C24_Witness ==
    /\ last.op = "MoveSlider" /\ last.outcome = "none"
    /\ \E o \in Chan, x \in Chan, i \in Chan :
          /\ o = last.args[2] /\ i = last.args[3]
          /\ links[o] \in Chan \ {o, x} /\ links[x] = o
          /\ analog_routes[o][i] = 70 /\ analog_routes[links[o]][i] = 70
          /\ analog_routes[x][i] = 30

====
